---- MODULE Spec2Model ----
(***************************************************************************)
(* Model of cjapy's report engine (src/cjapy/cjapy.py):                    *)
(*   CJA._prepareData, CJA._decrypteStaticData, CJA.getReport and          *)
(*   CJA.getMultidimensionalReport.                                        *)
(* Three specifications share the module:                                  *)
(*   SpecReport  one getReport call, one action per service call           *)
(*   SpecDecode  the two decoders applied to bounded inputs                *)
(*   SpecMulti   one getMultidimensionalReport call, one action per item   *)
(***************************************************************************)
EXTENDS Integers, Sequences, FiniteSets, TLC

\* ------------------------------------------------------------------ bounds
MaxPages == 3      \* service calls one getReport may issue in the model
MaxPageRows == 2   \* rows of one page
MaxN == 2          \* largest finite n_results
MaxMetrics == 3    \* metrics of a static request

\* ------------------------------------------------------- python helpers
\* str.startswith
StartsWith(s, p) == Len(s) >= Len(p) /\ SubSeq(s, 1, Len(p)) = p

\* "sub in s" on strings
Contains(s, sub) ==
    \E i \in 1..(Len(s) - Len(sub) + 1) : SubSeq(s, i, i + Len(sub) - 1) = sub

\* sequences over S of length 0..n
SeqsUpTo(S, n) == UNION {[1..k -> S] : k \in 0..n}

RECURSIVE ConcatAll(_)
ConcatAll(ss) == IF ss = <<>> THEN <<>> ELSE Head(ss) \o ConcatAll(Tail(ss))

\* float("inf") and float(n): n_results is "inf" or a number
Inf == [inf |-> TRUE, n |-> 0]
Num(k) == [inf |-> FALSE, n |-> k]

\* float(len(dataRows)) >= float(n_results)              (lines 1353, 1364)
ReachedCap_Strict(rows, n) == (~n.inf) /\ Len(rows) > n.n
ReachedCap(rows, n) == (~n.inf) /\ Len(rows) >= n.n

\* dataRows += res.get("rows")                           (line 1361)
AddRows_Dedup(dataRows, rows) ==
    dataRows \o SelectSeq(rows, LAMBDA r : \A i \in 1..Len(dataRows) : dataRows[i] # r)
AddRows_FirstOnly(dataRows, rows) ==
    dataRows \o (IF rows = <<>> THEN <<>> ELSE <<Head(rows)>>)
AddRows(dataRows, rows) == dataRows \o rows

GetLastPage_OnlyTrue(r) == r.lastPage = "true"

\* res.get("lastPage", True)                             (lines 1352, 1362)
GetLastPage(r) == r.lastPage # "false"

\* dataRequest["settings"]["page"] += 1                  (line 1357)
NextPage_Skip(page) == page + 2
NextPage(page) == page + 1

\* self.connector.postData(...) raises: nothing catches it, the operation
\* in progress ends                    (lines 1341, 1358, 1540, 1572)
AfterFailure_Retry(at) == at
ResetFrame_Keep(frame) == frame
AfterFailure(at) == "error"

\* "rows" in res.keys()                                  (line 1344)
IsNormal_ByLastPage(r) == r.lastPage # "absent"
IsNormal(r) == r.hasRows

\* ------------------------------------------------------- _prepareData
\* A python dict is a sequence of <<key, cells>> pairs with distinct keys,
\* in insertion order; assigning an existing key keeps its position.
Keys(d) == [i \in 1..Len(d) |-> d[i][1]]
HasKey(d, k) == \E i \in 1..Len(d) : d[i][1] = k
Get(d, k) == d[CHOOSE i \in 1..Len(d) : d[i][1] = k][2]
Put(d, k, v) ==
    IF HasKey(d, k)
    THEN [i \in 1..Len(d) |-> IF d[i][1] = k THEN <<k, v>> ELSE d[i]]
    ELSE Append(d, <<k, v>>)

\* expanded_rows[row["itemId"]] = [row["value"]]; += row["data"]
RowCells_NoData(row) == <<row.value>>
RowCells(row) == <<row.value>> \o row.data

RECURSIVE ExpandRows(_, _)
ExpandRows(d, rows) ==
    IF rows = <<>> THEN d
    ELSE ExpandRows(Put(d, Head(rows).itemId, RowCells(Head(rows))), Tail(rows))

prepareData(dataRows, reportType) ==
    IF reportType = "normal" THEN ExpandRows(<<>>, dataRows)
    ELSE IF reportType = "static" THEN dataRows
    ELSE <<>>

\* ------------------------------------------------- request documents
Absent == "<absent>"   \* a key the dict does not have

\* one entry of metricContainer.metricFilters
SegmentFilter(id, seg) ==
    [id |-> id, type |-> "segment", segmentId |-> seg,
     dimension |-> Absent, itemId |-> Absent, dateRange |-> Absent]
BreakdownFilter(id, dim, item) ==
    [id |-> id, type |-> "breakdown", segmentId |-> Absent,
     dimension |-> dim, itemId |-> item, dateRange |-> Absent]
DateRangeFilter(id, range) ==
    [id |-> id, type |-> "dateRange", segmentId |-> Absent,
     dimension |-> Absent, itemId |-> Absent, dateRange |-> range]

\* one entry of metricContainer.metrics; filters = <<>> is "no filters key"
Metric(columnId, id, filters) ==
    [columnId |-> columnId, id |-> id, filters |-> filters]

\* the metadata service: getFilter(id)["name"] and
\* getCalculatedMetric(id)["name"]
SegmentIds == {"s1@AdobeOrg_a", "s2@AdobeOrg_b"}
SegmentNames == {"Seg A", "Seg B"}

\* metric number i of a freeform request
MetricIdAt(i) == (IF i % 2 = 0 THEN "cm" ELSE "m") \o ToString(i)

CalcMetricIds == {MetricIdAt(i) : i \in {j \in 1..MaxMetrics : j % 2 = 0}}

Catalog(names) ==
    [x \in SegmentIds \cup CalcMetricIds |->
        IF x \in SegmentIds THEN names[x] ELSE "CM " \o x]

\* every lookup succeeds
Catalogs == {Catalog(names) : names \in [SegmentIds -> SegmentNames]}

\* a lookup that is answered without a "name" key, and one whose call fails
NoName == "<no name>"
LookupRaises == "<raises>"

\* seg = self.getFilter(id); seg["name"]               (lines 1246, 1394, 1435)
LookupError(cat, id) ==
    IF cat[id] = LookupRaises THEN "TransportError"
    ELSE IF cat[id] = NoName THEN "KeyError"
    ELSE "none"

\* catalogs in which one lookup fails
FailingCatalogs ==
    {Catalog([x \in SegmentIds |-> IF x = id THEN how ELSE "Seg B"]) :
        id \in SegmentIds, how \in {NoName, LookupRaises}}

LookupCatalogs == Catalogs \cup FailingCatalogs

\* row.startswith("s") and "@AdobeOrg" in row           (lines 1245, 1393)
IsSegmentId(x) == StartsWith(x, "s") /\ Contains(x, "@AdobeOrg")

\* obj["id"].startswith("STATIC_ROW")                   (lines 1214, 1219)
IsStaticRow(obj) == StartsWith(obj.id, "STATIC_ROW")

\* ------------------------------------------------- _decrypteStaticData
RECURSIVE SelectSeqBy(_, _)
\* the elements of s that are in the set S, in order
SelectSeqBy(s, S) ==
    IF s = <<>> THEN <<>>
    ELSE IF Head(s) \in S THEN <<Head(s)>> \o SelectSeqBy(Tail(s), S)
    ELSE SelectSeqBy(Tail(s), S)

Range(s) == {s[i] : i \in 1..Len(s)}

RECURSIVE DictOf(_, _)
\* {k: v for ...}: pairs inserted left to right
DictOf(d, pairs) ==
    IF pairs = <<>> THEN d
    ELSE DictOf(Put(d, Head(pairs)[1], Head(pairs)[2]), Tail(pairs))

MetricFiltersOf(dataRequest) == dataRequest.metricContainer.metricFilters
MetricsOf(dataRequest) == dataRequest.metricContainer.metrics

\* lines 1211-1215
tableSegmentsRows(dataRequest) ==
    LET fs == SelectSeqBy(MetricFiltersOf(dataRequest),
                          {f \in Range(MetricFiltersOf(dataRequest)) : IsStaticRow(f)})
    IN DictOf(<<>>, [i \in 1..Len(fs) |-> <<fs[i].id, fs[i].segmentId>>])

\* lines 1217-1225
SegmentAppliedValue(obj) ==
    IF obj.type = "breakdown" THEN obj.dimension \o ":::" \o obj.itemId
    ELSE IF obj.type = "segment" THEN obj.segmentId
    ELSE obj.dateRange

segmentApplied(dataRequest) ==
    LET fs == SelectSeqBy(MetricFiltersOf(dataRequest),
                 {f \in Range(MetricFiltersOf(dataRequest)) :
                     ~IsStaticRow(f) /\ f.type \in {"breakdown", "segment", "dateRange"}})
    IN DictOf(<<>>, [i \in 1..Len(fs) |-> <<fs[i].id, SegmentAppliedValue(fs[i])>>])

\* lines 1227-1230
tableColumnIds(dataRequest) ==
    LET ms == MetricsOf(dataRequest)
    IN DictOf(<<>>, [i \in 1..Len(ms) |-> <<ms[i].columnId, ms[i].filters[1]>>])

\* lines 1232-1236
staticFilterRelations(dataRequest) ==
    LET ms == SelectSeqBy(MetricsOf(dataRequest),
                          {m \in Range(MetricsOf(dataRequest)) : Len(m.filters) > 1})
    IN DictOf(<<>>, [i \in 1..Len(ms) |-> <<ms[i].filters[1], Tail(ms[i].filters)>>])

\* line 1237
staticRows(dataRequest) ==
    LET t == tableSegmentsRows(dataRequest) IN {t[i][2] : i \in 1..Len(t)}

\* line 1238
nb_rows(dataRequest) == Cardinality(staticRows(dataRequest))

\* lines 1239-1241: int(len(metrics) / nb_rows), operands >= 0, nb_rows > 0
nb_columns_RoundUp(dataRequest) ==
    (Len(MetricsOf(dataRequest)) + nb_rows(dataRequest) - 1) \div nb_rows(dataRequest)
nb_columns(dataRequest) == Len(MetricsOf(dataRequest)) \div nb_rows(dataRequest)

\* lines 1243-1252
staticRowName(row, catalog) == IF IsSegmentId(row) THEN catalog[row] ELSE row

\* The exceptions _decrypteStaticData raises, in the order the code meets them
StaticDecodeError(dataRequest, response, order, cat) ==
    IF \E f \in Range(MetricFiltersOf(dataRequest)) :
           IsStaticRow(f) /\ f.segmentId = Absent
    THEN "KeyError"                                   \* line 1212
    ELSE IF \E m \in Range(MetricsOf(dataRequest)) : m.filters = <<>>
    THEN "KeyError"                                   \* line 1228
    ELSE IF nb_rows(dataRequest) = 0
    THEN "ZeroDivisionError"                          \* line 1240
    ELSE IF \E i \in 1..Len(order) :
              IsSegmentId(order[i]) /\ LookupError(cat, order[i]) # "none"
    THEN LET i == CHOOSE k \in 1..Len(order) :
                    /\ IsSegmentId(order[k]) /\ LookupError(cat, order[k]) # "none"
                    /\ \A j \in 1..(k - 1) :
                          ~(IsSegmentId(order[j]) /\ LookupError(cat, order[j]) # "none")
         IN LookupError(cat, order[i])                \* lines 1246-1247
    ELSE IF \E i \in 1..Len(response.columnIds) :
              \/ ~HasKey(tableColumnIds(dataRequest), response.columnIds[i])
              \/ ~HasKey(tableSegmentsRows(dataRequest),
                         Get(tableColumnIds(dataRequest), response.columnIds[i]))
    THEN "KeyError"                                   \* line 1259
    ELSE "none"

\* zip(columnIds, totals) restricted to the columns of static row `row`
RECURSIVE RowTotals(_, _, _, _)
RowTotals(dataRequest, cols, totals, row) ==
    IF cols = <<>> \/ totals = <<>> THEN <<>>
    ELSE (IF Get(tableSegmentsRows(dataRequest),
                 Get(tableColumnIds(dataRequest), Head(cols))) = row
          THEN <<Head(totals)>> ELSE <<>>)
         \o RowTotals(dataRequest, Tail(cols), Tail(totals), row)

\* lines 1254-1263; `order` is the iteration order of the set staticRows.
\* The rows of `order` are distinct and the totals are numbers, so
\* "row not in dataRows[name]" holds at the first column of each row and
\* fails at its later columns: the label is appended once, before the
\* row's first total.
RECURSIVE StaticDataRows(_, _, _, _, _)
StaticDataRows(d, dataRequest, response, order, catalog) ==
    IF order = <<>> THEN d
    ELSE LET row == Head(order)
             name == staticRowName(row, catalog)
             vals == RowTotals(dataRequest, response.columnIds, response.totals, row)
             old == IF HasKey(d, name) THEN Get(d, name) ELSE <<>>
             d1 == IF vals = <<>> THEN d ELSE Put(d, name, old \o <<row>> \o vals)
         IN StaticDataRows(d1, dataRequest, response, Tail(order), catalog)

\* line 1265
decrypteStaticData(dataRequest, response, order, catalog) ==
    LET e == StaticDecodeError(dataRequest, response, order, catalog)
    IN IF e # "none"
       THEN [error |-> e, nb_columns |-> 0, dataRows |-> <<>>]
       ELSE [error |-> "none",
             nb_columns |-> nb_columns(dataRequest),
             dataRows |-> StaticDataRows(<<>>, dataRequest, response, order, catalog)]

\* the orders in which a python set may be iterated
Orders(S) == {o \in [1..Cardinality(S) -> S] : Range(o) = S}

\* ------------------------------------- column names of a normal report
UnboundName == "<unbound>"   \* the local filterValue before its first assignment

FilterTypes == {"breakdown", "dateRange", "segment"}

\* lines 1372-1375
columnIdRelations(request) ==
    LET ms == MetricsOf(request)
    IN DictOf(<<>>, [i \in 1..Len(ms) |-> <<ms[i].columnId, ms[i].id>>])

\* lines 1376-1380
filterRelations(request) ==
    LET ms == SelectSeqBy(MetricsOf(request),
                          {m \in Range(MetricsOf(request)) : Len(m.filters) > 0})
    IN DictOf(<<>>, [i \in 1..Len(ms) |-> <<ms[i].columnId, ms[i].filters>>])

\* lines 1385-1392: filterValue after one turn of the loop; a filter of
\* another type leaves the value of the previous turn
FilterValueOf_TripleColon(filter, previous) ==
    IF filter.type = "breakdown" THEN filter.dimension \o ":::" \o filter.itemId
    ELSE IF filter.type = "dateRange" THEN filter.dateRange
    ELSE IF filter.type = "segment" THEN filter.segmentId
    ELSE previous
FilterValueOf(filter, previous) ==
    IF filter.type = "breakdown" THEN filter.dimension \o ":" \o filter.itemId
    ELSE IF filter.type = "dateRange" THEN filter.dateRange
    ELSE IF filter.type = "segment" THEN filter.segmentId
    ELSE previous

\* the exception one turn of the loop raises
FilterStepError(filter, previous, cat) ==
    IF filter.type = "breakdown" /\ (filter.dimension = Absent \/ filter.itemId = Absent)
    THEN "KeyError"                                   \* line 1386
    ELSE IF filter.type = "dateRange" /\ filter.dateRange = Absent
    THEN "KeyError"                                   \* line 1389
    ELSE IF filter.type = "segment" /\ filter.segmentId = Absent
    THEN "KeyError"                                   \* line 1392
    ELSE IF filter.type = "segment" /\ IsSegmentId(filter.segmentId)
    THEN LookupError(cat, filter.segmentId)           \* lines 1394-1395
    ELSE IF filter.type \notin FilterTypes /\ previous = UnboundName
    THEN "UnboundLocalError"                          \* line 1396
    ELSE "none"

MetricFiltersWith_NoLookup(mf, filter, cat) ==
    IF filter.type = "breakdown" THEN Put(mf, filter.dimension, filter.itemId)
    ELSE IF filter.type = "dateRange" THEN Put(mf, filter.dateRange, filter.dateRange)
    ELSE IF filter.type = "segment" THEN Put(mf, filter.segmentId, filter.segmentId)
    ELSE mf

\* lines 1387, 1390, 1395: the dict handed to Workspace as metricFilters
MetricFiltersWith(mf, filter, cat) ==
    IF filter.type = "breakdown" THEN Put(mf, filter.dimension, filter.itemId)
    ELSE IF filter.type = "dateRange" THEN Put(mf, filter.dateRange, filter.dateRange)
    ELSE IF filter.type = "segment" /\ IsSegmentId(filter.segmentId)
    THEN Put(mf, filter.segmentId, cat[filter.segmentId])
    ELSE mf

NoTranslation ==
    [error |-> "none", filterValue |-> UnboundName, metricFilters |-> <<>>,
     metricFilterTranslation |-> <<>>]

RECURSIVE TranslateFilters(_, _, _)
\* lines 1381-1396
TranslateFilters(st, filters, cat) ==
    IF filters = <<>> \/ st.error # "none" THEN st
    ELSE LET filter == Head(filters)
             e == FilterStepError(filter, st.filterValue, cat)
             v == FilterValueOf(filter, st.filterValue)
         IN TranslateFilters(
                IF e # "none" THEN [st EXCEPT !.error = e]
                ELSE [error |-> "none", filterValue |-> v,
                      metricFilters |-> MetricFiltersWith(st.metricFilters, filter, cat),
                      metricFilterTranslation |->
                          Put(st.metricFilterTranslation, filter.id, v)],
                Tail(filters), cat)

RECURSIVE ColumnName(_, _, _)
\* lines 1399-1401: metricColumns[colId] += f":::{metricFilterTranslation[element]}"
ColumnName(name, elements, translation) ==
    IF elements = <<>> THEN name
    ELSE ColumnName(name \o ":::" \o Get(translation, Head(elements)),
                    Tail(elements), translation)

\* lines 1397-1401: dict columnId -> name
metricColumns(request, translation) ==
    LET rel == columnIdRelations(request)
        fr == filterRelations(request)
    IN [i \in 1..Len(rel) |->
           <<rel[i][1],
             ColumnName(rel[i][2],
                        IF HasKey(fr, rel[i][1]) THEN Get(fr, rel[i][1]) ELSE <<>>,
                        translation)>>]

\* line 1401 with a filter id that metricFilters does not declare
UndeclaredFilter(request, translation) ==
    \E m \in Range(MetricsOf(request)) :
        \E f \in Range(m.filters) : ~HasKey(translation, f)

\* lines 1371-1401
NormalColumns(request, cat) ==
    LET tr == TranslateFilters(NoTranslation, MetricFiltersOf(request), cat)
    IN IF tr.error # "none"
       THEN [error |-> tr.error, metrics |-> <<>>, metricFilters |-> <<>>]
       ELSE IF UndeclaredFilter(request, tr.metricFilterTranslation)
       THEN [error |-> "KeyError", metrics |-> <<>>, metricFilters |-> <<>>]
       ELSE [error |-> "none",
             metrics |-> metricColumns(request, tr.metricFilterTranslation),
             metricFilters |-> tr.metricFilters]

\* ------------------------------------- Workspace: resolved column names
RECURSIVE SplitSep(_)
\* str.split(":::")
SplitSep(str) ==
    IF Contains(str, ":::")
    THEN LET i == CHOOSE k \in 1..(Len(str) - 2) :
                     /\ SubSeq(str, k, k + 2) = ":::"
                     /\ \A j \in 1..(k - 1) : SubSeq(str, j, j + 2) # ":::"
         IN <<SubSeq(str, 1, i - 1)>> \o SplitSep(SubSeq(str, i + 3, Len(str)))
    ELSE <<str>>

\* a suffix that is a segment id is shown by the name metricFilters holds
\* for it, any other suffix unchanged
ResolveSuffix(suffix, mf) ==
    IF IsSegmentId(suffix) /\ HasKey(mf, suffix) THEN Get(mf, suffix) ELSE suffix

\* the name a Workspace shows for the column getReport named `name`
ResolvedName(name, mf) ==
    LET parts == SplitSep(name)
    IN ColumnName(Head(parts),
                  [k \in 1..(Len(parts) - 1) |-> parts[k + 1]],
                  [k \in 1..(Len(parts) - 1) |->
                      <<parts[k + 1], ResolveSuffix(parts[k + 1], mf)>>])

\* ------------------------------------- column names of a static report
\* metric.split(":::")[0]                               (line 1422)
BeforeSep(str) ==
    IF Contains(str, ":::")
    THEN SubSeq(str, 1,
                (CHOOSE i \in 1..(Len(str) - 2) :
                    /\ SubSeq(str, i, i + 2) = ":::"
                    /\ \A j \in 1..(i - 1) : SubSeq(str, j, j + 2) # ":::") - 1)
    ELSE str

RECURSIVE StaticSuffixes(_, _, _, _)
\* lines 1430-1436: the filters chained to the column's static row
StaticSuffixes(st, elements, applied, cat) ==
    IF elements = <<>> \/ st.error # "none" THEN st
    ELSE IF ~HasKey(applied, Head(elements))
    THEN [st EXCEPT !.error = "KeyError"]             \* line 1431
    ELSE LET segId == Get(applied, Head(elements))
             e == IF IsSegmentId(segId) THEN LookupError(cat, segId) ELSE "none"
         IN StaticSuffixes(
                [error |-> e,
                 name |-> st.name \o ":::" \o segId,
                 metricFilters |->
                     Put(st.metricFilters, segId,
                         IF IsSegmentId(segId) /\ e = "none" THEN cat[segId] ELSE segId)],
                Tail(elements), applied, cat)

RECURSIVE StaticColumns(_, _, _, _, _, _)
\* lines 1418-1437: for i in range(nb_columns)
StaticColumns(st, i, n, request, response, cat) ==
    IF i > n \/ st.error # "none" THEN st
    ELSE IF i > Len(response.columnIds)
    THEN [st EXCEPT !.error = "IndexError"]           \* line 1421
    ELSE LET metric == response.columnIds[i]
             id == BeforeSep(metric)
             e == IF StartsWith(id, "cm") THEN LookupError(cat, id) ELSE "none"
             metricName == IF StartsWith(id, "cm") /\ e = "none" THEN cat[id] ELSE id
             correspondingStatic == Get(tableColumnIds(request), metric)
             rel == staticFilterRelations(request)
             sfx == IF e # "none"
                    THEN [error |-> e, name |-> metricName,
                          metricFilters |-> st.metricFilters]
                    ELSE StaticSuffixes(
                             [error |-> "none", name |-> metricName,
                              metricFilters |-> st.metricFilters],
                             IF HasKey(rel, correspondingStatic)
                             THEN Get(rel, correspondingStatic) ELSE <<>>,
                             segmentApplied(request), cat)
         IN StaticColumns(
                [error |-> sfx.error,
                 metrics |-> Append(st.metrics, sfx.name),
                 metricFilters |-> sfx.metricFilters],
                i + 1, n, request, response, cat)

\* ------------------------------------------------------------ state
VARIABLES
    pc,            \* position in the running operation
    dataRequest,   \* the request document getReport posts
    catalog,       \* the metadata service: segment id -> name
    n_results,     \* getReport argument
    returnClass,   \* getReport argument
    res,           \* the last response received
    dataRows,      \* accumulated rows (line 1348, 1361)
    lastPage,      \* loop flag (lines 1352-1366)
    reportType,    \* "normal" | "static"
    calls,         \* settings.page of every request posted, in order
    answered,      \* every response received, in order
    result         \* what the operation returned

reportVars == <<pc, dataRequest, catalog, n_results, returnClass, res, dataRows,
                lastPage, reportType, calls, answered, result>>

\* ------------------------------------- state of the traversal
MaxDims == 3        \* dimensions of one traversal

VARIABLES
    phase,                     \* position in getMultidimensionalReport
    raised,                    \* the exception that ended it, or "none"
    dimensions,                \* argument
    dimensionLimit,            \* argument: dimension -> n_results
    metrics,                   \* argument
    metricFilters,             \* argument: dict metric -> filter id
    template,                  \* the RequestCreator document
    level,                     \* line 1519
    items,                     \* the list the for loop of line 1557 walks
    pos,                       \* index in items of the next itemId
    dict_breakdown_itemId,     \* line 1523
    dict_breakdown_relation,   \* line 1524
    translate_itemId_value,    \* line 1525
    df_final,                  \* line 1527
    columns_order,             \* line 1608
    cycles,                    \* every fetch cycle done, in order
    table,                     \* the frame handed to Workspace (line 1621)
    missing,                   \* the arguments passed as None
    countRepeatInstances,      \* argument (line 1470)
    returnNones                \* argument (line 1471)

multiVars ==
    <<phase, raised, missing, countRepeatInstances, returnNones, dimensions,
      dimensionLimit, metrics, metricFilters,
               template, level, items, pos, dict_breakdown_itemId,
               dict_breakdown_relation, translate_itemId_value, df_final,
               columns_order, cycles, table>>

vars == <<reportVars, multiVars>>

\* dimension number i
DimName(i) == IF i = 1 THEN "page" ELSE IF i = 2 THEN "device" ELSE "dim" \o ToString(i)

Dims == {DimName(i) : i \in 1..MaxDims}

\* RequestCreator(): no dimension, no metric
NewTemplate ==
    [dimension |-> Absent, limit |-> 0, metrics |-> <<>>,
     dataId |-> Absent, globalFilters |-> <<>>,
     countRepeatInstances |-> FALSE, nonesBehavior |-> Absent]

\* pd.DataFrame()
EmptyFrame == [cols |-> <<>>, rows |-> <<>>]

Unbound == <<"<unbound>">>   \* a local variable not assigned yet

\* the traversal's variables while another operation runs
IdleMulti ==
    /\ phase = "idle"
    /\ raised = "none"
    /\ dimensions = <<>>
    /\ dimensionLimit = [d \in Dims |-> Inf]
    /\ metrics = <<>>
    /\ metricFilters = <<>>
    /\ template = NewTemplate
    /\ level = 0
    /\ items = <<>>
    /\ pos = 1
    /\ dict_breakdown_itemId = [d \in Dims |-> <<>>]
    /\ dict_breakdown_relation = <<>>
    /\ translate_itemId_value = <<>>
    /\ df_final = EmptyFrame
    /\ columns_order = Unbound
    /\ cycles = <<>>
    /\ table = EmptyFrame
    /\ missing = {}
    /\ countRepeatInstances = TRUE
    /\ returnNones = TRUE

\* -------------------------------------------------- the report service
\* Row number k of a report
Row(k) == [itemId |-> "i" \o ToString(k), value |-> "v" \o ToString(k), data |-> <<k>>]

\* The service answers a page with c rows, either the next rows of the
\* report or (a misbehaving service) the first rows again.
PageRows(start, c) == [i \in 1..c |-> Row(start + i - 1)]

LastPageValues == {"true", "false", "absent"}

NormalResponse(rows, lp) ==
    [hasRows |-> TRUE, rows |-> rows, lastPage |-> lp,
     columnIds |-> <<>>, totals |-> <<>>]

\* a static answer: one total per metric column of the request
StaticResponse(request, lp) ==
    [hasRows |-> FALSE, rows |-> <<>>, lastPage |-> lp,
     columnIds |-> [i \in 1..Len(MetricsOf(request)) |-> MetricsOf(request)[i].columnId],
     totals |-> [i \in 1..Len(MetricsOf(request)) |-> 10 * i]]

NormalResponses(seen) ==
    {NormalResponse(PageRows(start, c), lp) :
        start \in {1, seen + 1}, c \in 0..MaxPageRows, lp \in LastPageValues}

NoResponse == NormalResponse(<<>>, "absent")

\* ------------------------------------------------ request documents
StaticRow1 == SegmentFilter("STATIC_ROW_COMPONENT_1", "s1@AdobeOrg_a")
StaticRow2 == SegmentFilter("STATIC_ROW_COMPONENT_2", "All_Visits")
StaticRow3 == SegmentFilter("STATIC_ROW_COMPONENT_3", "s1@AdobeOrg_a")
PlainBreakdown == BreakdownFilter("0", "variables/page", "home")
PlainSegment == SegmentFilter("1", "s2@AdobeOrg_b")

Request(ms, fs) ==
    [settings |-> [page |-> 0, limit |-> 0],
     metricContainer |-> [metrics |-> ms, metricFilters |-> fs]]

\* a one-metric report and a two-row freeform table
NormalRequest == Request(<<Metric("0", "m1", <<>>)>>, <<>>)
FreeformRequest ==
    Request(<<Metric("0", "m1", <<"STATIC_ROW_COMPONENT_1">>),
              Metric("1", "m1", <<"STATIC_ROW_COMPONENT_2">>)>>,
            <<StaticRow1, StaticRow2>>)
ReportRequests == {NormalRequest, FreeformRequest}

NResults == {Inf} \cup {Num(k) : k \in 0..MaxN}

\* the largest page size the service accepts, and the default of the
\* limit argument (line 1270)
PageSizeCap == 20000

\* the limit argument of a direct call: the default, or more
LimitArgs == {PageSizeCap, 50000}

\* settings.page of the document the caller hands in
CallerPages == {0, 7}

\* lines 1322-1323
FirstRequest(request, limit) ==
    [request EXCEPT !.settings.page = 0, !.settings.limit = limit]

\* ------------------------------------------------------- getReport
\* lines 1405-1416, 1442-1457: the static branch's decode, or the
\* exception that ends it
\* a return value or an exception that carries no table
Outcome(kind, type) ==
    [kind |-> kind, reportType |-> type, nb_columns |-> 0, data |-> <<>>,
     metrics |-> <<>>, metricFilters |-> <<>>]

StaticResult(request, response, order, cat) ==
    LET dec == decrypteStaticData(request, response, order, cat)
        cols == StaticColumns([error |-> "none", metrics |-> <<>>, metricFilters |-> <<>>],
                              1, dec.nb_columns, request, response, cat)
    IN IF dec.error # "none" THEN Outcome(dec.error, "static")
       ELSE IF cols.error # "none" THEN Outcome(cols.error, "static")
       ELSE [kind |-> "Workspace", reportType |-> "static",
             nb_columns |-> dec.nb_columns,
             data |-> prepareData(dec.dataRows, "static"),
             metrics |-> cols.metrics, metricFilters |-> cols.metricFilters]

\* lines 1369-1401, 1442-1457: the normal branch's return value, or the
\* exception that ends it
NormalResult(request, rows, asClass, cat) ==
    LET cols == NormalColumns(request, cat)
    IN IF asClass = FALSE
       THEN [kind |-> "rows", reportType |-> "normal", nb_columns |-> 0, data |-> rows,
             metrics |-> <<>>, metricFilters |-> <<>>]
       ELSE IF cols.error # "none" THEN Outcome(cols.error, "normal")
       ELSE [kind |-> "Workspace", reportType |-> "normal", nb_columns |-> 0,
             data |-> prepareData(rows, "normal"),
             metrics |-> cols.metrics, metricFilters |-> cols.metricFilters]

NoResult == Outcome("none", "none")

InitReport ==
    /\ pc = "start"
    /\ \E request \in ReportRequests, page \in CallerPages :
          dataRequest = [request EXCEPT !.settings.page = page]
    /\ catalog \in Catalogs
    /\ n_results \in NResults
    /\ returnClass \in BOOLEAN
    /\ res = NoResponse
    /\ dataRows = <<>>
    /\ lastPage = FALSE
    /\ reportType = "none"
    /\ calls = <<>>
    /\ answered = <<>>
    /\ result = NoResult
    /\ IdleMulti

\* lines 1322-1366 up to the loop test: the first request and its answer
GetReportFirstCall ==
    /\ pc = "start"
    /\ \E limit \in LimitArgs,
          r \in NormalResponses(0) \cup {StaticResponse(dataRequest, lp) : lp \in LastPageValues} :
        /\ dataRequest' = FirstRequest(dataRequest, limit)
        /\ calls' = Append(calls, FirstRequest(dataRequest, limit).settings.page)
        /\ answered' = <<r>>
        /\ res' = r
        /\ IF IsNormal(r)
           THEN /\ reportType' = "normal"
                /\ dataRows' = r.rows
                /\ lastPage' = (GetLastPage(r) \/ ReachedCap(r.rows, n_results))
                /\ pc' = "loop"
           ELSE /\ reportType' = "static"
                /\ dataRows' = <<>>
                /\ lastPage' = FALSE
                /\ pc' = "static"
    /\ UNCHANGED <<catalog, n_results, returnClass, result>>
    /\ UNCHANGED multiVars

\* lines 1356-1366: one turn of the while loop
GetReportNextPage ==
    /\ pc = "loop"
    /\ lastPage # TRUE
    /\ Len(calls) < MaxPages
    /\ \E r \in NormalResponses(Len(dataRows)) :
        /\ dataRequest' = [dataRequest EXCEPT !.settings.page = NextPage(@)]
        /\ calls' = Append(calls, NextPage(dataRequest.settings.page))
        /\ answered' = Append(answered, r)
        /\ res' = r
        /\ dataRows' = AddRows(dataRows, r.rows)
        /\ lastPage' = (GetLastPage(r) \/ ReachedCap(AddRows(dataRows, r.rows), n_results))
    /\ UNCHANGED <<pc, catalog, n_results, returnClass, reportType, result>>
    /\ UNCHANGED multiVars

\* lines 1367-1401, 1442-1460: the loop is over
GetReportReturn ==
    /\ pc = "loop"
    /\ lastPage = TRUE
    /\ result' = NormalResult(dataRequest, dataRows, returnClass, catalog)
    /\ pc' = IF NormalResult(dataRequest, dataRows, returnClass, catalog).kind
                  \in {"rows", "Workspace"}
             THEN "done" ELSE "error"
    /\ UNCHANGED <<dataRequest, catalog, n_results, returnClass, res, dataRows,
                   lastPage, reportType, calls, answered>>
    /\ UNCHANGED multiVars

\* lines 1402-1460: the first response has no rows
GetReportStatic ==
    /\ pc = "static"
    /\ IF returnClass = FALSE
       THEN result' = Outcome("res", "none")
       ELSE \E order \in Orders(staticRows(dataRequest)) :
              result' = StaticResult(dataRequest, res, order, catalog)
    /\ pc' = "done"
    /\ UNCHANGED <<dataRequest, catalog, n_results, returnClass, res, dataRows,
                   lastPage, reportType, calls, answered>>
    /\ UNCHANGED multiVars

\* lines 1322-1343 and 1357-1360: the post of the first or of a later page
\* raises
GetReportCallFails ==
    /\ pc \in {"start", "loop"}
    /\ pc = "loop" => lastPage # TRUE
    /\ Len(calls) < MaxPages
    /\ \E limit \in LimitArgs :
         LET request == IF pc = "start" THEN FirstRequest(dataRequest, limit)
                        ELSE [dataRequest EXCEPT !.settings.page = NextPage(@)]
         IN /\ dataRequest' = request
            /\ calls' = Append(calls, request.settings.page)
    /\ result' = Outcome("TransportError", reportType)
    /\ pc' = AfterFailure(pc)
    /\ UNCHANGED <<catalog, n_results, returnClass, res, dataRows, lastPage,
                   reportType, answered>>
    /\ UNCHANGED multiVars

NextReport ==
    \/ GetReportFirstCall
    \/ GetReportNextPage
    \/ GetReportCallFails
    \/ GetReportReturn
    \/ GetReportStatic


\* ------------------------------------- the pagination loop, unbounded
\* The loop of lines 1341-1366 without the record of the calls made, so
\* that it may run forever in a finite state space: the page number is kept
\* up to MaxLoopPage and folded back beyond it, and the service returns at
\* most MaxLoopRows rows in all before it only has empty pages left.
MaxLoopPage == 3
MaxLoopRows == 3

Folded(page) == IF page > MaxLoopPage THEN 1 ELSE page

\* the pages the service may answer once `seen` rows were returned
LoopResponses(seen) ==
    {NormalResponse(PageRows(seen + 1, c), lp) :
        c \in {k \in 0..MaxPageRows : seen + k <= MaxLoopRows}, lp \in LastPageValues}

InitLoop ==
    /\ pc = "start"
    /\ dataRequest = NormalRequest
    /\ catalog = Catalog([x \in SegmentIds |-> "Seg A"])
    /\ n_results \in NResults
    /\ returnClass = FALSE
    /\ res = NoResponse
    /\ dataRows = <<>>
    /\ lastPage = FALSE
    /\ reportType = "none"
    /\ calls = <<>>
    /\ answered = <<>>
    /\ result = NoResult
    /\ IdleMulti

\* lines 1322-1355: the first request and its answer, a normal one
LoopFirstPage ==
    /\ pc = "start"
    /\ \E r \in LoopResponses(0) :
        /\ res' = r
        /\ dataRows' = r.rows
        /\ lastPage' = (GetLastPage(r) \/ ReachedCap(r.rows, n_results))
    /\ dataRequest' = FirstRequest(dataRequest, PageSizeCap)
    /\ reportType' = "normal"
    /\ pc' = "loop"
    /\ UNCHANGED <<catalog, n_results, returnClass, calls, answered, result>>
    /\ UNCHANGED multiVars

\* lines 1356-1366: one turn of the while loop
LoopNextPage ==
    /\ pc = "loop"
    /\ lastPage # TRUE
    /\ \E r \in LoopResponses(Len(dataRows)) :
        /\ res' = r
        /\ dataRows' = AddRows(dataRows, r.rows)
        /\ lastPage' = (GetLastPage(r) \/ ReachedCap(AddRows(dataRows, r.rows), n_results))
    /\ dataRequest' = [dataRequest EXCEPT !.settings.page = Folded(NextPage(@))]
    /\ UNCHANGED <<pc, catalog, n_results, returnClass, reportType, calls, answered, result>>
    /\ UNCHANGED multiVars

\* lines 1367-1370: the loop is over
LoopExit ==
    /\ pc = "loop"
    /\ lastPage = TRUE
    /\ result' = NormalResult(dataRequest, dataRows, returnClass, catalog)
    /\ pc' = "done"
    /\ UNCHANGED <<dataRequest, catalog, n_results, returnClass, res, dataRows,
                   lastPage, reportType, calls, answered>>
    /\ UNCHANGED multiVars

NextLoop == LoopFirstPage \/ LoopNextPage \/ LoopExit

\* ------------------------------------------------- the decoders alone
MaxRows == 3       \* rows handed to _prepareData

DecodeRows ==
    [itemId : {"a", "b"}, value : {"x", "y"}, data : {<<1, 2>>, <<2, 1>>}]

StaticRowDate == DateRangeFilter("STATIC_ROW_COMPONENT_4", "2020-01-01/2020-02-01")

\* what a metric's "filters" list may hold
FilterRefs ==
    {<<>>, <<"STATIC_ROW_COMPONENT_1">>, <<"STATIC_ROW_COMPONENT_2">>,
     <<"STATIC_ROW_COMPONENT_3">>, <<"STATIC_ROW_COMPONENT_1", "0">>,
     <<"STATIC_ROW_COMPONENT_2", "1">>, <<"0">>}

\* a second static row that is a segment of the catalog
OtherSegmentRow == SegmentFilter("STATIC_ROW_COMPONENT_2", "s2@AdobeOrg_b")

\* a date range chained to a metric of a freeform table
ChainedDateRange == DateRangeFilter("1", "2020-01-01/2020-02-01")

\* what metricContainer.metricFilters may declare
FilterDecls ==
    {<<>>, <<StaticRow1>>, <<StaticRow1, StaticRow2>>,
     <<StaticRow1, StaticRow2, StaticRow3>>,
     <<StaticRow1, StaticRow3, PlainBreakdown>>,
     <<StaticRow1, StaticRow2, PlainBreakdown, PlainSegment>>,
     <<StaticRow1, StaticRow2, StaticRow3, PlainBreakdown, PlainSegment>>,
     <<StaticRowDate, StaticRow1>>,
     <<StaticRow1, StaticRow2, PlainBreakdown, ChainedDateRange>>,
     <<StaticRow1, OtherSegmentRow>>}

\* the column of metric number i is "<metric id>:::<i - 1>"
StaticRequests ==
    {Request([i \in 1..Len(refs) |->
                 Metric(MetricIdAt(i) \o ":::" \o ToString(i - 1), MetricIdAt(i), refs[i])],
             decl) :
        refs \in SeqsUpTo(FilterRefs, MaxMetrics) \ {<<>>}, decl \in FilterDecls}

\* normal requests whose metrics carry filters
MaxColumns == 2    \* metrics of such a request

PlainDateRange == DateRangeFilter("2", "2020-01-01/2020-02-01")
NamedSegment == SegmentFilter("3", "All_Visits")

\* what a metric's "filters" list may hold; "9" is declared nowhere
ColumnFilterRefs ==
    {<<>>, <<"0">>, <<"1">>, <<"2">>, <<"0", "1">>, <<"1", "0">>, <<"3", "2">>, <<"9">>}

\* a declared filter of a type the loop of lines 1383-1396 has no branch for
OtherTypeFilter ==
    [id |-> "1", type |-> "excludeItemIds", segmentId |-> Absent,
     dimension |-> Absent, itemId |-> Absent, dateRange |-> Absent]

ColumnFilterDecls ==
    {<<PlainBreakdown, PlainSegment, PlainDateRange, NamedSegment>>,
     <<SegmentFilter("1", "s1@AdobeOrg_a"), PlainBreakdown, PlainDateRange, NamedSegment>>,
     <<PlainBreakdown, OtherTypeFilter, PlainDateRange, NamedSegment>>}

ColumnRequests ==
    {Request([i \in 1..Len(refs) |-> Metric(ToString(i - 1), "m" \o ToString(i), refs[i])],
             decl) :
        refs \in SeqsUpTo(ColumnFilterRefs, MaxColumns) \ {<<>>}, decl \in ColumnFilterDecls}

\* the rows the requests above are answered with
ColumnRows == <<[itemId |-> "a", value |-> "x", data |-> <<1, 2>>]>>

InitDecode ==
    /\ pc = "decode"
    /\ reportType \in {"normal", "static"}
    /\ IF reportType = "normal"
       THEN \/ /\ dataRequest = NormalRequest
               /\ catalog \in {Catalog([x \in SegmentIds |-> "Seg A"])}
               /\ \E rows \in SeqsUpTo(DecodeRows, MaxRows) :
                     res = NormalResponse(rows, "true")
            \/ /\ dataRequest \in ColumnRequests
               /\ catalog \in LookupCatalogs
               /\ res = NormalResponse(ColumnRows, "true")
       ELSE /\ dataRequest \in StaticRequests
            /\ catalog \in LookupCatalogs
            /\ res = StaticResponse(dataRequest, "absent")
    /\ n_results = Inf
    /\ returnClass = TRUE
    /\ dataRows = <<>>
    /\ lastPage = TRUE
    /\ calls = <<>>
    /\ answered = <<>>
    /\ result = NoResult
    /\ IdleMulti

\* lines 1369-1401 and 1442-1457: the column names and
\* _prepareData(dataRows, "normal")
DecodeNormal ==
    /\ pc = "decode"
    /\ reportType = "normal"
    /\ dataRows' = res.rows
    /\ result' = NormalResult(dataRequest, res.rows, TRUE, catalog)
    /\ pc' = IF NormalResult(dataRequest, res.rows, TRUE, catalog).kind = "Workspace"
             THEN "done" ELSE "error"
    /\ UNCHANGED <<dataRequest, catalog, n_results, returnClass, res, lastPage,
                   reportType, calls, answered>>
    /\ UNCHANGED multiVars

\* lines 1405-1457: _decrypteStaticData(dataRequest, res), the column
\* names and _prepareData(.., "static")
DecodeStatic ==
    /\ pc = "decode"
    /\ reportType = "static"
    /\ \E order \in Orders(staticRows(dataRequest)) :
         result' = StaticResult(dataRequest, res, order, catalog)
    /\ pc' = "done"
    /\ UNCHANGED <<dataRequest, catalog, n_results, returnClass, res, dataRows,
                   lastPage, reportType, calls, answered>>
    /\ UNCHANGED multiVars

NextDecode == DecodeNormal \/ DecodeStatic


\* ======================================== getMultidimensionalReport
MaxItems == 2       \* rows one fetch of the traversal returns in all
MaxTravPages == 2   \* pages one fetch of the traversal is answered with

\* --------------------------------------------------- RequestCreator
\* The builder's document: dimension, limit, and the metrics in the order
\* added, each with the filter ids attached to it.

addMetric(t, metricId) ==
    [t EXCEPT !.metrics = Append(@, [id |-> metricId, filters |-> <<>>])]

\* the filter id is appended to the list of the metric named
addMetricFilter(t, metricId, filterId) ==
    [t EXCEPT !.metrics =
        [i \in 1..Len(@) |->
            IF @[i].id = metricId
            THEN [@[i] EXCEPT !.filters = Append(@, filterId)]
            ELSE @[i]]]

\* the filter id is removed from every metric's list it appears in
removeMetricFilter(t, filterId) ==
    [t EXCEPT !.metrics =
        [i \in 1..Len(@) |->
            [@[i] EXCEPT !.filters = SelectSeq(@, LAMBDA f : f # filterId)]]]

setDataViewId(t, dataViewId) == [t EXCEPT !.dataId = dataViewId]
setRepeatInstance(t, repeat) == [t EXCEPT !.countRepeatInstances = repeat]
setNoneBehavior(t, returnNone) ==
    [t EXCEPT !.nonesBehavior = IF returnNone THEN "return-nones" ELSE "exclude-nones"]
addGlobalFilter(t, filterId) == [t EXCEPT !.globalFilters = Append(@, filterId)]
setDimension(t, dimension) == [t EXCEPT !.dimension = dimension]
setLimit(t, limit) == [t EXCEPT !.limit = limit]

RECURSIVE AddFilterToAll(_, _, _)
\* for metric in metrics: template.addMetricFilter(metric, filterId)
AddFilterToAll(t, ms, filterId) ==
    IF ms = <<>> THEN t
    ELSE AddFilterToAll(addMetricFilter(t, Head(ms), filterId), Tail(ms), filterId)

RECURSIVE AddMetrics(_, _)
AddMetrics(t, ms) ==
    IF ms = <<>> THEN t ELSE AddMetrics(addMetric(t, Head(ms)), Tail(ms))

RECURSIVE AddCallerFilters(_, _)
\* for filterKey in metricFilters: addMetricFilter(filterKey, metricFilters[filterKey])
AddCallerFilters(t, d) ==
    IF d = <<>> THEN t
    ELSE AddCallerFilters(addMetricFilter(t, Head(d)[1], Head(d)[2]), Tail(d))

RECURSIVE AddGlobalFilters(_, _)
\* for filter in globalFilters: template.addGlobalFilter(filter)
AddGlobalFilters(t, fs) ==
    IF fs = <<>> THEN t ELSE AddGlobalFilters(addGlobalFilter(t, Head(fs)), Tail(fs))

\* lines 1502-1514
InitialTemplate(dataViewId, repeat, nones, globalFilters, ms, callerFilters) ==
    AddCallerFilters(
        AddMetrics(
            AddGlobalFilters(
                setNoneBehavior(setRepeatInstance(setDataViewId(NewTemplate, dataViewId),
                                                  repeat),
                                nones),
                globalFilters),
            ms),
        callerFilters)

\* ------------------------------------------------------- data frames
\* A frame is its column labels in order and its rows, each row a
\* function from the labels to the cells.
IsEmpty(df) == df.rows = <<>> \/ df.cols = <<>>

\* Workspace(...).dataframe of a normal report: itemId, the dimension's
\* value, one column per metric
WorkspaceFrame(decoded, dimension, metricCols) ==
    LET cols == <<"itemId", dimension>> \o metricCols
    IN [cols |-> cols,
        rows |-> [r \in 1..Len(decoded) |->
                    [c \in Range(cols) |->
                        LET k == CHOOSE j \in 1..Len(cols) : cols[j] = c
                        IN IF k = 1 THEN decoded[r][1] ELSE decoded[r][2][k - 1]]]]

\* list(dataframe[label])
Column(df, label) == [r \in 1..Len(df.rows) |-> df.rows[r][label]]

\* list(dataframe.iloc[:, 1])
ColumnAt(df, k) == [r \in 1..Len(df.rows) |-> df.rows[r][df.cols[k]]]

\* dataframe.rename(columns = {old[i]: new[i]})
RenameLabel(old, new, c) ==
    IF \E i \in 1..Len(old) : i <= Len(new) /\ old[i] = c
    THEN new[CHOOSE i \in 1..Len(old) : i <= Len(new) /\ old[i] = c]
    ELSE c

Rename(df, old, new) ==
    LET cols == [j \in 1..Len(df.cols) |-> RenameLabel(old, new, df.cols[j])]
    IN [cols |-> cols,
        rows |-> [r \in 1..Len(df.rows) |->
                    [c \in Range(cols) |->
                        df.rows[r][df.cols[CHOOSE j \in 1..Len(cols) : cols[j] = c]]]]]

\* dataframe[label] = value
SetColumn(df, label, value) ==
    [cols |-> IF label \in Range(df.cols) THEN df.cols ELSE Append(df.cols, label),
     rows |-> [r \in 1..Len(df.rows) |->
                 [c \in Range(df.cols) \cup {label} |->
                     IF c = label THEN value ELSE df.rows[r][c]]]]

\* df[order]
CanSelect(df, order) == Range(order) \subseteq Range(df.cols)
Select(df, order) ==
    [cols |-> order,
     rows |-> [r \in 1..Len(df.rows) |-> [c \in Range(order) |-> df.rows[r][c]]]]

AppendFrame_Front(df, other) == [cols |-> df.cols, rows |-> other.rows \o df.rows]

\* df.append(other, ignore_index=True) of frames with the same labels
AppendFrame(df, other) == [cols |-> df.cols, rows |-> df.rows \o other.rows]

\* deque.appendleft
AppendLeft(order, label) == <<label>> \o order

\* ------------------------------------------- the traversal's service

\* item number k of a dimension, with one value per metric
TravRow(dimension, k, nm) ==
    [itemId |-> dimension \o "-" \o ToString(k),
     value |-> "v:" \o dimension \o "-" \o ToString(k),
     data |-> [j \in 1..nm |-> 10 * k + j]]

RECURSIVE SumSeq(_)
SumSeq(cs) == IF cs = <<>> THEN 0 ELSE Head(cs) + SumSeq(Tail(cs))

\* pages holding cs[1], cs[2], ... consecutive items; only the last page
\* may carry something else than lastPage = false
TravPages(dimension, nm, cs, lp) ==
    [p \in 1..Len(cs) |->
        NormalResponse(
            [i \in 1..cs[p] |-> TravRow(dimension, SumSeq(SubSeq(cs, 1, p - 1)) + i, nm)],
            IF p = Len(cs) THEN lp ELSE "false")]

\* rows accumulated over the pages, as the loop of getReport does
RECURSIVE Accumulated(_, _)
Accumulated(rows, pages) ==
    IF pages = <<>> THEN rows ELSE Accumulated(AddRows(rows, Head(pages).rows), Tail(pages))

\* getReport posts exactly these pages: the loop goes on after every page
\* but the last, and stops after the last
ExactRun(pages, n) ==
    /\ pages # <<>>
    /\ \A p \in 1..Len(pages) :
          (GetLastPage(pages[p]) \/ ReachedCap(Accumulated(<<>>, SubSeq(pages, 1, p)), n))
              = (p = Len(pages))

PageCounts ==
    {cs \in SeqsUpTo(0..MaxItems, MaxTravPages) : cs # <<>> /\ SumSeq(cs) <= MaxItems}

\* what the service may answer one getReport of the traversal with
TravAnswers(dimension, nm, n) ==
    {ps \in {TravPages(dimension, nm, cs, lp) : cs \in PageCounts, lp \in LastPageValues} :
        ExactRun(ps, n)}

\* lines 1397-1401: the metric column's name, the metric id followed by
\* its filters
RECURSIVE JoinFilters(_, _)
JoinFilters(name, fs) ==
    IF fs = <<>> THEN name ELSE JoinFilters(name \o ":::" \o Head(fs), Tail(fs))

MetricColumns(t) == [i \in 1..Len(t.metrics) |-> JoinFilters(t.metrics[i].id, t.metrics[i].filters)]

\* the service lists the items in an order of its own
ServiceOrders(rows) == {rows, [i \in 1..Len(rows) |-> rows[Len(rows) + 1 - i]]}

\* the rows one getReport of the traversal accumulates
FetchOutcomes(dimension, nm, n) ==
    UNION {ServiceOrders(Accumulated(<<>>, ps)) : ps \in TravAnswers(dimension, nm, n)}

\* getReport(request, n_results, limit).dataframe for the rows accumulated
ReportFrame(t, rows) ==
    WorkspaceFrame(prepareData(rows, "normal"), t.dimension, MetricColumns(t))

\* lines 1529-1534
LimitOf(n) == IF n.inf \/ n.n > PageSizeCap THEN PageSizeCap ELSE n.n

\* {itemId: value for itemId, value in zip(...)}    (lines 1548, 1593)
Translation(df) ==
    DictOf(<<>>, [r \in 1..Len(df.rows) |-> <<Column(df, "itemId")[r], ColumnAt(df, 2)[r]>>])

GetOr_AlwaysDefault(d, k, default) == default

\* dict.get(key, default)
GetOr(d, k, default) == IF HasKey(d, k) THEN Get(d, k) ELSE default

\* ------------------------------------------- getMultidimensionalReport
DimLists == {[i \in 1..n |-> DimName(i)] : n \in 1..MaxDims}

MetricLists == {<<"visits">>, <<"visits", "orders">>}

\* the caller's metricFilters: none, a segment, a breakdown
CallerFilters ==
    {<<>>, <<(<<"visits", "s1@AdobeOrg_a">>)>>, <<(<<"visits", "page:::page-1">>)>>}

DimensionLimits == {[d \in Dims |-> n] : n \in {Inf, Num(1)}}


\* an optional argument of getReport left at its default, None, as the
\* tests of lines 1324 and 1328 see it
NotPassed == FALSE

\* lines 1324-1331: getReport writes both flags into the document it is
\* handed, from its own arguments returnsNone and countRepeatInstances
Posted(request, returnsNone, repeat) ==
    [request EXCEPT
        !.nonesBehavior = IF returnsNone THEN "return-nones" ELSE "exclude-nones",
        !.countRepeatInstances = IF repeat THEN TRUE ELSE FALSE]

\* one fetch of the traversal: the builder's document before it, as handed
\* to getReport (sent), as getReport posts it, and after it, the item ids
\* decoded, and whether a post of it failed
Cycle(lvl, dimension, parent, filterId, before, sent, after, decoded) ==
    [level |-> lvl, dimension |-> dimension, parent |-> parent, filterId |-> filterId,
     before |-> before, sent |-> sent, posted |-> Posted(sent, NotPassed, NotPassed),
     after |-> after, decoded |-> decoded, failed |-> FALSE]

\* the arguments that may be passed as None, one at a time or together
RequiredArgs == {"dimensions", "dimensionLimit", "metrics", "dataViewId", "globalFilters"}
MissingSets ==
    {{}} \cup {{a} : a \in RequiredArgs} \cup {{"metrics", "globalFilters"}}

DataViewIds == {"dv1"}
GlobalFilterLists == {<<"s1@AdobeOrg_a", "2020-01-01/2020-02-01">>}

\* lines 1490-1507: the exception the None arguments raise
ArgumentError(none) ==
    IF "dimensions" \in none THEN "ValueError"            \* line 1491
    ELSE IF "dimensionLimit" \in none THEN "ValueError"   \* line 1493
    ELSE IF "metrics" \in none THEN "ValueError"          \* line 1497
    ELSE IF "dataViewId" \in none THEN "ValueError"       \* line 1499
    ELSE IF "globalFilters" \in none THEN "TypeError"     \* line 1506
    ELSE "none"

\* the pages answered before a post of the fetch fails: the loop goes on
\* after every one of them
FailedRun(pages, n) ==
    \A p \in 1..Len(pages) :
        ~(GetLastPage(pages[p]) \/ ReachedCap(Accumulated(<<>>, SubSeq(pages, 1, p)), n))

TravFailures(dimension, nm, n) ==
    {ps \in {TravPages(dimension, nm, cs, "false") :
                cs \in {c \in PageCounts \cup {<<>>} : Len(c) < MaxTravPages}} :
        FailedRun(ps, n)}

\* the variables of the other operation, at rest
IdleReport ==
    /\ pc = "idle"
    /\ dataRequest = NormalRequest
    /\ catalog = Catalog([x \in SegmentIds |-> "Seg A"])
    /\ n_results = Inf
    /\ returnClass = TRUE
    /\ res = NoResponse
    /\ dataRows = <<>>
    /\ lastPage = FALSE
    /\ reportType = "none"
    /\ calls = <<>>
    /\ answered = <<>>
    /\ result = NoResult

\* line 1527, df_final = pd.DataFrame(): the running table of a dimension
\* starts empty
ResetFrame(frame) == EmptyFrame

\* the defaults of countRepeatInstances and returnNones (lines 1470-1471);
\* other values are passed in calls that are plain otherwise
DefaultFlags == <<TRUE, TRUE>>

InitMulti ==
    /\ phase = "start"
    /\ raised = "none"
    /\ dimensions \in DimLists
    /\ dimensionLimit \in DimensionLimits
    /\ metrics \in MetricLists
    /\ metricFilters \in CallerFilters
    /\ template = NewTemplate
    /\ level = 0
    /\ items = <<>>
    /\ pos = 1
    /\ dict_breakdown_itemId = [d \in Dims |-> <<>>]
    /\ dict_breakdown_relation = <<>>
    /\ translate_itemId_value = <<>>
    /\ df_final = EmptyFrame
    /\ columns_order = Unbound
    /\ cycles = <<>>
    /\ table = EmptyFrame
    /\ missing \in MissingSets
    /\ countRepeatInstances \in BOOLEAN
    /\ returnNones \in BOOLEAN
    /\ (<<countRepeatInstances, returnNones>> # DefaultFlags) =>
          /\ missing = {}
          /\ metrics = <<"visits">>
          /\ metricFilters = <<>>
          /\ dimensionLimit = [d \in Dims |-> Inf]
    /\ IdleReport

\* lines 1490-1507: an argument is None
RejectArguments ==
    /\ phase = "start"
    /\ missing # {}
    /\ raised' = ArgumentError(missing)
    /\ phase' = "error"
    /\ UNCHANGED <<missing, countRepeatInstances, returnNones,
                   dimensions, dimensionLimit, metrics, metricFilters, template,
                   level, items, pos, dict_breakdown_itemId, dict_breakdown_relation,
                   translate_itemId_value, df_final, columns_order, cycles, table>>
    /\ UNCHANGED reportVars

\* lines 1502-1534: the template of the first dimension's request
FirstTemplate(dataViewId, globalFilters) ==
    setLimit(setDimension(InitialTemplate(dataViewId, countRepeatInstances, returnNones,
                                          globalFilters, metrics, metricFilters),
                          dimensions[1]),
             LimitOf(dimensionLimit[dimensions[1]]))

\* lines 1490-1553 and 1619: the arguments, the template, the first
\* dimension's fetch.  list_breakdown = dimensions[1:], so
\* list_breakdown[level] is dimensions[1] and does not exist for a single
\* dimension.
FirstDimension ==
    /\ phase = "start"
    /\ missing = {}
    /\ \E dataViewId \in DataViewIds, globalFilters \in GlobalFilterLists :
       LET dimension == dimensions[1]
           t == FirstTemplate(dataViewId, globalFilters)
       IN \E rows \in FetchOutcomes(dimension, Len(metrics), dimensionLimit[dimension]) :
            LET dataframe == ReportFrame(t, rows)
            IN /\ template' = t
               /\ cycles' = Append(cycles, Cycle(0, dimension, Absent, Absent, t, t, t,
                                                 Column(dataframe, "itemId")))
               /\ IF Len(dimensions) < 2
                  THEN /\ phase' = "error"
                       /\ raised' = "IndexError"
                       /\ UNCHANGED <<dict_breakdown_itemId, translate_itemId_value, level>>
                  ELSE /\ phase' = "dimension"
                       /\ raised' = "none"
                       /\ dict_breakdown_itemId' =
                            [dict_breakdown_itemId EXCEPT ![dimensions[2]] =
                                Column(dataframe, "itemId")]
                       /\ translate_itemId_value' =
                            Put(translate_itemId_value, dimension, Translation(dataframe))
                       /\ level' = 1
    /\ df_final' = ResetFrame(df_final)
    /\ UNCHANGED <<missing, countRepeatInstances, returnNones,
                   dimensions, dimensionLimit, metrics, metricFilters, items, pos,
                   dict_breakdown_relation, columns_order, table>>
    /\ UNCHANGED reportVars

\* lines 1526-1534, 1554-1557: the next dimension of the for loop.  The
\* dimensions are distinct, so only the first one equals dimensions[0].
EnterDimension ==
    /\ phase = "dimension"
    /\ level < Len(dimensions)
    /\ LET dimension == dimensions[level + 1]
       IN /\ template' = setLimit(setDimension(template, dimension),
                                  LimitOf(dimensionLimit[dimension]))
          /\ items' = dict_breakdown_itemId[dimension]
    /\ df_final' = ResetFrame(df_final)
    /\ pos' = 1
    /\ phase' = "items"
    /\ UNCHANGED <<raised, missing, countRepeatInstances, returnNones,
                   dimensions, dimensionLimit, metrics, metricFilters, level,
                   dict_breakdown_itemId, dict_breakdown_relation,
                   translate_itemId_value, columns_order, cycles, table>>
    /\ UNCHANGED reportVars

RECURSIVE AddDimensionColumns(_, _, _, _, _)
\* lines 1609-1613, for lvl in range(level): the frame and the column order
AddDimensionColumns(fo, lvl, upto, itemId, translate) ==
    IF lvl >= upto THEN fo
    ELSE LET d == dimensions[lvl + 1]
         IN AddDimensionColumns(
                [frame |-> SetColumn(fo.frame, d, GetOr(Get(translate, d), itemId, itemId)),
                 order |-> AppendLeft(fo.order, d)],
                lvl + 1, upto, itemId, translate)

\* lines 1601-1613: the item's frame with the metric columns renamed and
\* the dimension columns added
ItemFrame(dataframe, itemId, translate) ==
    LET nb_metrics == Len(metrics)
        metricsCols == SubSeq(dataframe.cols, Len(dataframe.cols) - nb_metrics + 1,
                              Len(dataframe.cols))
        renamed == Rename(dataframe, metricsCols, metrics)
    IN AddDimensionColumns([frame |-> renamed, order |-> renamed.cols],
                           0, level, itemId, translate)

\* lines 1557-1618: one itemId of the for loop
ProcessItem ==
    /\ phase = "items"
    /\ pos <= Len(items)
    /\ LET dimension == dimensions[level + 1]
           itemId == items[pos]
           filterId == dimensions[level] \o ":::" \o itemId
       IN IF level > 1 /\ ~HasKey(dict_breakdown_relation, itemId)
          THEN /\ phase' = "error"
               /\ raised' = "KeyError"
               /\ UNCHANGED <<template, pos, dict_breakdown_itemId, dict_breakdown_relation,
                              translate_itemId_value, df_final, columns_order, cycles>>
          ELSE
          LET original_filterId == Get(dict_breakdown_relation, itemId)
              t1 == IF level > 1 THEN AddFilterToAll(template, metrics, original_filterId)
                    ELSE template
              t2 == AddFilterToAll(t1, metrics, filterId)
              t3 == removeMetricFilter(t2, filterId)
              t4 == IF level > 1 THEN removeMetricFilter(t3, original_filterId) ELSE t3
          IN \E rows \in FetchOutcomes(dimension, Len(metrics), dimensionLimit[dimension]) :
               LET dataframe == ReportFrame(t2, rows)
                   list_itemIds == Column(dataframe, "itemId")
                   translate == Put(translate_itemId_value, dimension, Translation(dataframe))
                   fo == ItemFrame(dataframe, itemId, translate)
                   order == IF IsEmpty(dataframe) THEN columns_order ELSE fo.order
                   merged == IF IsEmpty(dataframe) THEN df_final
                             ELSE IF IsEmpty(df_final) THEN fo.frame
                             ELSE AppendFrame(df_final, fo.frame)
               IN /\ template' = t4
                  /\ cycles' = Append(cycles, Cycle(level, dimension, itemId, filterId,
                                                    template, t2, t4, list_itemIds))
                  /\ dict_breakdown_itemId' =
                        [dict_breakdown_itemId EXCEPT ![dimension] = list_itemIds]
                  /\ dict_breakdown_relation' =
                        DictOf(<<>>, [i \in 1..Len(list_itemIds) |-> <<list_itemIds[i], filterId>>])
                  /\ translate_itemId_value' = translate
                  /\ columns_order' = order
                  /\ IF order = Unbound
                     THEN /\ phase' = "error"
                          /\ raised' = "UnboundLocalError"
                          /\ df_final' = merged
                          /\ pos' = pos
                     ELSE IF ~CanSelect(merged, order)
                     THEN /\ phase' = "error"
                          /\ raised' = "KeyError"
                          /\ df_final' = merged
                          /\ pos' = pos
                     ELSE /\ phase' = "items"
                          /\ raised' = "none"
                          /\ df_final' = Select(merged, order)
                          /\ pos' = pos + 1
    /\ UNCHANGED <<missing, countRepeatInstances, returnNones,
                   dimensions, dimensionLimit, metrics, metricFilters, level, items, table>>
    /\ UNCHANGED reportVars

\* lines 1540 and 1572: a post of the fetch raises, at the first dimension
\* or for an item; the filters added for the item stay on the builder
TraversalFetchFails ==
    /\ raised = "none"
    /\ \/ phase = "start" /\ missing = {}
       \/ /\ phase = "items" /\ pos <= Len(items)
          /\ level > 1 => HasKey(dict_breakdown_relation, items[pos])
    /\ \E dataViewId \in DataViewIds, globalFilters \in GlobalFilterLists :
       LET first == (phase = "start")
           dimension == dimensions[level + 1]
           itemId == IF first THEN Absent ELSE items[pos]
           filterId == IF first THEN Absent ELSE dimensions[level] \o ":::" \o itemId
           before == IF first THEN FirstTemplate(dataViewId, globalFilters) ELSE template
           t1 == IF level > 1
                 THEN AddFilterToAll(before, metrics, Get(dict_breakdown_relation, itemId))
                 ELSE before
           sent == IF first THEN before ELSE AddFilterToAll(t1, metrics, filterId)
       IN /\ TravFailures(dimension, Len(metrics), dimensionLimit[dimension]) # {}
          /\ template' = sent
          /\ cycles' = Append(cycles,
                 [Cycle(level, dimension, itemId, filterId, before, sent, sent, <<>>)
                     EXCEPT !.failed = TRUE])
    /\ raised' = "TransportError"
    /\ phase' = AfterFailure(phase)
    /\ UNCHANGED <<missing, countRepeatInstances, returnNones,
                   dimensions, dimensionLimit, metrics, metricFilters, level, items,
                   pos, dict_breakdown_itemId, dict_breakdown_relation,
                   translate_itemId_value, df_final, columns_order, table>>
    /\ UNCHANGED reportVars

\* line 1619: the items of this dimension are done
LeaveDimension ==
    /\ phase = "items"
    /\ pos > Len(items)
    /\ level' = level + 1
    /\ phase' = "dimension"
    /\ UNCHANGED <<raised, missing, countRepeatInstances, returnNones,
                   dimensions, dimensionLimit, metrics, metricFilters, template,
                   items, pos, dict_breakdown_itemId, dict_breakdown_relation,
                   translate_itemId_value, df_final, columns_order, cycles, table>>
    /\ UNCHANGED reportVars

\* lines 1620-1628: the for loop is over
ReturnWorkspace ==
    /\ phase = "dimension"
    /\ level = Len(dimensions)
    /\ table' = df_final
    /\ phase' = "done"
    /\ UNCHANGED <<raised, missing, countRepeatInstances, returnNones,
                   dimensions, dimensionLimit, metrics, metricFilters, template,
                   level, items, pos, dict_breakdown_itemId, dict_breakdown_relation,
                   translate_itemId_value, df_final, columns_order, cycles>>
    /\ UNCHANGED reportVars

NextMulti ==
    \/ RejectArguments
    \/ FirstDimension
    \/ EnterDimension
    \/ ProcessItem
    \/ TraversalFetchFails
    \/ LeaveDimension
    \/ ReturnWorkspace

\* -------------------------------------------------- specifications
SpecReport == InitReport /\ [][NextReport]_vars

SpecDecode == InitDecode /\ [][NextDecode]_vars

SpecMulti == InitMulti /\ [][NextMulti]_vars

\* getReport runs sequentially and every post is answered: a step that is
\* possible is taken
SpecLoop == InitLoop /\ [][NextLoop]_vars /\ WF_vars(NextLoop)

\* either operation, called once
InitEngine == InitReport \/ InitMulti

NextEngine == NextReport \/ NextMulti

SpecEngine == InitEngine /\ [][NextEngine]_vars

\* =================================================== claims: getReport
RowsOf(resps) == ConcatAll([i \in 1..Len(resps) |-> resps[i].rows])

\* the first page on which the service signalled the last page (0: none)
FirstLastPage(resps) ==
    IF \E i \in 1..Len(resps) : resps[i].lastPage # "false"
    THEN CHOOSE i \in 1..Len(resps) :
            /\ resps[i].lastPage # "false"
            /\ \A j \in 1..(i - 1) : resps[j].lastPage = "false"
    ELSE 0

LoopOver == (pc = "loop" /\ lastPage = TRUE) \/ (pc = "done" /\ reportType = "normal")

\* C1: with n_results = "inf" and a normal first answer, when the loop is
\* over the service signalled the last page for the first time on page k,
\* exactly k requests were posted, and the accumulated rows (what
\* returnClass=False returns) are the rows of pages 1..k in page order,
\* repeated rows included.
C1_PagesConcatenated ==
    (LoopOver /\ n_results = Inf) =>
        /\ FirstLastPage(answered) = Len(answered)
        /\ Len(calls) = Len(answered)
        /\ dataRows = RowsOf(answered)
        /\ (pc = "done" /\ returnClass = FALSE => result.data = RowsOf(answered))

C1_Witness ==
    /\ pc = "done" /\ n_results = Inf /\ returnClass = FALSE
    /\ Len(calls) = 3
    /\ [i \in 1..3 |-> answered[i].lastPage] = <<"false", "false", "true">>
    /\ result.data = <<Row(1), Row(2), Row(1), Row(4)>>

CapReached(count, n) == n # Inf /\ count >= n.n

\* C7: every page after the first is requested only while the service has
\* not signalled the last page and the accumulated count is below
\* n_results; the loop ends exactly when one of the two happens, and with
\* n_results = "inf" only on the last-page signal.
C7_FetchUntilLastPageOrCap ==
    (reportType = "normal" /\ pc \in {"loop", "done"}) =>
        /\ \A i \in 1..(Len(answered) - 1) :
              /\ answered[i].lastPage = "false"
              /\ ~CapReached(Len(RowsOf(SubSeq(answered, 1, i))), n_results)
        /\ lastPage = (\/ answered[Len(answered)].lastPage # "false"
                       \/ CapReached(Len(dataRows), n_results))
        /\ (pc = "done" => lastPage = TRUE)
        /\ (n_results = Inf => lastPage = (answered[Len(answered)].lastPage # "false"))

C7_Witness ==
    /\ pc = "done" /\ reportType = "normal"
    /\ n_results = Num(2)
    /\ Len(calls) = 2
    /\ answered[2].lastPage = "false"
    /\ Len(dataRows) = 3

\* the result cap is what ended the pagination: the loop is over although
\* the last page fetched did not signal the last page
CapStopped ==
    LoopOver /\ n_results # Inf /\ answered[Len(answered)].lastPage = "false"

\* every row of every fetched page is kept and returned
AllFetchedReturned ==
    /\ dataRows = RowsOf(answered)
    /\ (pc = "done" /\ returnClass = FALSE => result.data = RowsOf(answered))
    /\ Len(dataRows) >= n_results.n

\* the rows beyond n_results are fewer than the last page fetched holds
ExcessBelowOnePage ==
    Len(dataRows) <= n_results.n + Len(answered[Len(answered)].rows) - 1

\* C26 as stated: when n_results stops the pagination nothing fetched is
\* cut off, and the returned rows exceed n_results by at most one page
\* minus one row, whatever n_results is.
C26_ExcessBoundForEveryCap ==
    CapStopped => AllFetchedReturned /\ ExcessBelowOnePage

\* C26: when n_results stops the pagination, all rows of every fetched page
\* are returned, at least n_results of them, and for n_results >= 1 at most
\* one page minus one row more.
C26_NoTruncation ==
    CapStopped => AllFetchedReturned /\ (n_results.n >= 1 => ExcessBelowOnePage)

C26_Witness ==
    /\ pc = "done" /\ returnClass = FALSE
    /\ n_results = Num(2)
    /\ Len(calls) = 2
    /\ [i \in 1..2 |-> answered[i].lastPage] = <<"false", "false">>
    /\ Len(answered[1].rows) = 1
    /\ Len(result.data) = 3

\* the service has signalled the last page (lastPage true or absent), or
\* the rows accumulated have reached a finite n_results
LastPageOrCap ==
    /\ pc # "start"
    /\ \/ res.lastPage # "false"
       \/ (n_results # Inf /\ Len(dataRows) >= n_results.n)

\* the service answers every request with lastPage = false and no rows
AlwaysMoreAndEmpty == pc # "start" => res.lastPage = "false" /\ res.rows = <<>>

\* C27: the pagination loop terminates if and only if the service
\* eventually returns a page whose lastPage is true or absent, or n_results
\* is finite and the accumulated row count eventually reaches it; against a
\* service that always answers lastPage = false with empty rows, with
\* n_results infinite, the loop never ends and posts again and again.
C27_TerminatesIffLastPageOrCap ==
    /\ (<>(pc = "done")) => (<>LastPageOrCap)
    /\ (<>LastPageOrCap) => (<>(pc = "done"))
    /\ ([]AlwaysMoreAndEmpty /\ [](n_results = Inf))
          => ([](pc # "done") /\ []<><<LoopNextPage>>_vars)

C27_Witness ==
    /\ pc = "loop"
    /\ n_results = Inf
    /\ lastPage = FALSE
    /\ res.lastPage = "false" /\ res.rows = <<>>
    /\ dataRows = <<>>
    /\ dataRequest.settings.page = MaxLoopPage

\* C8: the report type is "normal" exactly when the first response has
\* the key rows and "static" exactly when it has not, whatever else the
\* response holds; a static report is answered by one request.
C8_ShapeByRowsKey ==
    (answered # <<>>) =>
        /\ (reportType = "normal") = answered[1].hasRows
        /\ (reportType = "static") = ~answered[1].hasRows
        /\ (reportType = "static" => Len(calls) = 1 /\ Len(answered) = 1)

C8_Witness ==
    /\ pc = "done" /\ reportType = "static"
    /\ answered[1].lastPage = "false"
    /\ result.kind = "Workspace"
    /\ Len(calls) = 1

\* C14: every request document posted has settings.limit <= 20000, also
\* when getReport is called directly with a larger limit argument.
C14_EveryRequestLimitCapped ==
    (calls # <<>>) => dataRequest.settings.limit <= PageSizeCap

\* C17: the requests of one getReport call carry the page numbers
\* 0, 1, 2, ... in the order sent, whatever settings.page the caller's
\* document held; the document's page is the one of the last request sent.
C17_PagesCountFromZero ==
    /\ calls = [i \in 1..Len(calls) |-> i - 1]
    /\ (calls # <<>> => dataRequest.settings.page = Len(calls) - 1)

C17_Witness ==
    /\ pc = "done"
    /\ calls = <<0, 1, 2>>
    /\ dataRequest.settings.page = 2

\* =================================================== claims: decoders
ItemIdsOf(rows) == {rows[i].itemId : i \in 1..Len(rows)}

LastWith(rows, id) ==
    rows[CHOOSE i \in 1..Len(rows) :
            /\ rows[i].itemId = id
            /\ \A j \in (i + 1)..Len(rows) : rows[j].itemId # id]

\* C9: the decoded table of a normal report has exactly one entry per
\* distinct itemId of the rows, keyed by the itemId, holding a row's value
\* followed by that row's data in order (the last row of that itemId when
\* the service repeats one).
C9_OneRowPerItemId ==
    (pc = "done" /\ reportType = "normal") =>
        LET d == result.data
        IN /\ Range(Keys(d)) = ItemIdsOf(res.rows)
           /\ Len(d) = Cardinality(ItemIdsOf(res.rows))
           /\ \A j \in 1..Len(d) :
                 d[j][2] = <<LastWith(res.rows, d[j][1]).value>>
                             \o LastWith(res.rows, d[j][1]).data

C9_Witness ==
    /\ pc = "done" /\ reportType = "normal"
    /\ Len(res.rows) = 3
    /\ result.data = <<(<<"b", <<"y", 2, 1>>>>), (<<"a", <<"x", 1, 2>>>>)>>

\* the entry of metricContainer.metricFilters a filter id refers to
DeclaredFilter(request, id) ==
    CHOOSE f \in Range(MetricFiltersOf(request)) : f.id = id

\* every declared filter is a breakdown, a date range or a segment
KnownTypes(request) ==
    \A f \in Range(MetricFiltersOf(request)) : f.type \in FilterTypes

AllDeclared(request) ==
    \A m \in Range(MetricsOf(request)) :
        \A id \in Range(m.filters) :
            \E f \in Range(MetricFiltersOf(request)) : f.id = id

\* what a filter shows as: "<dimension>:<item>", the date range, the
\* segment's name (the id itself when it is no segment id)
DisplayValue(f, cat) ==
    IF f.type = "breakdown" THEN f.dimension \o ":" \o f.itemId
    ELSE IF f.type = "dateRange" THEN f.dateRange
    ELSE IF IsSegmentId(f.segmentId) THEN cat[f.segmentId]
    ELSE f.segmentId

RECURSIVE ExpectedName(_, _, _, _)
ExpectedName(name, ids, request, cat) ==
    IF ids = <<>> THEN name
    ELSE ExpectedName(name \o ":::" \o DisplayValue(DeclaredFilter(request, Head(ids)), cat),
                      Tail(ids), request, cat)

\* C11: the name resolved for every metric column of a decoded normal
\* report is the metric id followed, for each filter id of the metric's
\* filter list in order, by ":::" and the filter's display value, a
\* breakdown on dimension D with item I showing as "D:I"; getReport itself
\* names the column with the same suffixes, a segment by its id.
C11_ColumnNames ==
    (pc = "done" /\ reportType = "normal" /\ result.kind = "Workspace"
        /\ KnownTypes(dataRequest)) =>
        \A m \in Range(MetricsOf(dataRequest)) :
            /\ HasKey(result.metrics, m.columnId)
            /\ ResolvedName(Get(result.metrics, m.columnId), result.metricFilters)
                   = ExpectedName(m.id, m.filters, dataRequest, catalog)
            /\ Len(SplitSep(Get(result.metrics, m.columnId))) = 1 + Len(m.filters)

C11_Witness ==
    /\ pc = "done" /\ reportType = "normal" /\ result.kind = "Workspace"
    /\ Len(MetricsOf(dataRequest)) = 2
    /\ MetricsOf(dataRequest)[1].filters = <<"0">>
    /\ MetricsOf(dataRequest)[2].filters = <<"1", "0">>
    /\ Get(result.metrics, "0") = "m1:::variables/page:home"
    /\ ResolvedName(Get(result.metrics, "1"), result.metricFilters)
           = "m2:::Seg A:::variables/page:home"

\* C15: a failing lookup of a segment id used as a column-name suffix does
\* not abort the decode of a normal report: the report is returned and the
\* column shows the raw id.
C15_LookupFailureFallsBack ==
    (pc # "decode" /\ reportType = "normal" /\ AllDeclared(dataRequest)
        /\ KnownTypes(dataRequest)) =>
        /\ result.kind = "Workspace"
        /\ \A m \in Range(MetricsOf(dataRequest)) :
              \A k \in 1..Len(m.filters) :
                  LET f == DeclaredFilter(dataRequest, m.filters[k])
                  IN (f.type = "segment" /\ IsSegmentId(f.segmentId)
                         /\ catalog[f.segmentId] \notin SegmentNames)
                     => ResolvedName(Get(result.metrics, m.columnId),
                                     result.metricFilters) 
                            = ExpectedName(m.id, m.filters, dataRequest,
                                  [x \in DOMAIN catalog |->
                                      IF catalog[x] \in SegmentNames THEN catalog[x] ELSE x])

\* the k-th ":::" suffix of a column name
SuffixAt(name, k) == SplitSep(name)[k + 1]

\* C22: in a normal report a segment filter chained to a metric contributes
\* to the resolved column name, as its ":::" suffix, the looked-up name when
\* its id matches the segment-id pattern and the id unchanged otherwise.
C22_SegmentSuffix ==
    (pc = "done" /\ reportType = "normal" /\ result.kind = "Workspace") =>
        \A m \in Range(MetricsOf(dataRequest)) :
            \A k \in 1..Len(m.filters) :
                LET f == DeclaredFilter(dataRequest, m.filters[k])
                    raw == Get(result.metrics, m.columnId)
                    shown == ResolvedName(raw, result.metricFilters)
                IN (f.type = "segment") =>
                      /\ SuffixAt(raw, k) = f.segmentId
                      /\ IF IsSegmentId(f.segmentId)
                         THEN /\ HasKey(result.metricFilters, f.segmentId)
                              /\ Get(result.metricFilters, f.segmentId) = catalog[f.segmentId]
                              /\ SuffixAt(shown, k) = catalog[f.segmentId]
                         ELSE SuffixAt(shown, k) = f.segmentId

C22_Witness ==
    /\ pc = "done" /\ reportType = "normal" /\ result.kind = "Workspace"
    /\ Len(MetricsOf(dataRequest)) = 2
    /\ MetricsOf(dataRequest)[1].filters = <<"1">>
    /\ MetricsOf(dataRequest)[2].filters = <<"3", "2">>
    /\ catalog["s2@AdobeOrg_b"] = "Seg B"
    /\ ResolvedName(Get(result.metrics, "0"), result.metricFilters) = "m1:::Seg B"
    /\ ResolvedName(Get(result.metrics, "1"), result.metricFilters)
           = "m2:::All_Visits:::2020-01-01/2020-02-01"

\* the place of the filter with this id among the declared filters
DeclaredAt(request, id) ==
    CHOOSE j \in 1..Len(MetricFiltersOf(request)) : MetricFiltersOf(request)[j].id = id

\* C28: in a normal report's column names, a declared filter whose type is
\* none of breakdown, dateRange and segment does not show the display value
\* of the filter declared before it.
C28_NoValueFromPreviousFilter ==
    (pc = "done" /\ reportType = "normal" /\ result.kind = "Workspace") =>
        \A m \in Range(MetricsOf(dataRequest)) :
            \A k \in 1..Len(m.filters) :
                LET decls == MetricFiltersOf(dataRequest)
                    j == DeclaredAt(dataRequest, m.filters[k])
                IN (decls[j].type \notin FilterTypes /\ j > 1
                        /\ decls[j - 1].type \in FilterTypes)
                   => SuffixAt(Get(result.metrics, m.columnId), k)
                          # DisplayValue(decls[j - 1], [x \in DOMAIN catalog |-> x])

StaticWellFormed(request) ==
    /\ \A f \in Range(MetricFiltersOf(request)) : IsStaticRow(f) => f.segmentId # Absent
    /\ \A m \in Range(MetricsOf(request)) :
          /\ m.filters # <<>>
          /\ \E f \in Range(MetricFiltersOf(request)) : IsStaticRow(f) /\ f.id = m.filters[1]
          /\ \A k \in 2..Len(m.filters) :
                \E f \in Range(MetricFiltersOf(request)) :
                    ~IsStaticRow(f) /\ f.id = m.filters[k]

NormalRuleName(name, ids, request, cat) ==
    LET tr == TranslateFilters(NoTranslation, MetricFiltersOf(request), cat)
    IN ResolvedName(ColumnName(name, ids, tr.metricFilterTranslation), tr.metricFilters)

\* the metric name of column i of a static report, before its suffixes
StaticBaseName(response, i, cat) ==
    LET id == BeforeSep(response.columnIds[i])
    IN IF StartsWith(id, "cm") THEN cat[id] ELSE id

\* C23: a static report's resolved column name carries, for the non-static
\* filters chained to the column's static row, the same ":::" suffixes the
\* normal branch gives the same filters (breakdown, date range, segment).
C23_StaticSuffixesAsNormal ==
    (pc = "done" /\ reportType = "static" /\ result.kind = "Workspace"
        /\ StaticWellFormed(dataRequest) /\ catalog \in Catalogs) =>
        \A i \in 1..Len(result.metrics) :
            LET static == Get(tableColumnIds(dataRequest), res.columnIds[i])
                rel == staticFilterRelations(dataRequest)
                chain == IF HasKey(rel, static) THEN Get(rel, static) ELSE <<>>
            IN ResolvedName(result.metrics[i], result.metricFilters)
                   = NormalRuleName(StaticBaseName(res, i, catalog), chain,
                                    dataRequest, catalog)

\* every static row the request declares is the row of some column
EveryRowUsed(request) ==
    \A f \in Range(MetricFiltersOf(request)) :
        IsStaticRow(f) => \E m \in Range(MetricsOf(request)) : m.filters[1] = f.id

\* C24: a static decode yields exactly one row per distinct static-row
\* segment id of the request, keyed by the row's display name and holding
\* the row's label followed by the totals of the columns of that row, in
\* column order; distinct static rows have distinct keys.
C24_OneRowPerStaticRow ==
    (pc = "done" /\ reportType = "static" /\ result.kind = "Workspace"
        /\ StaticWellFormed(dataRequest) /\ EveryRowUsed(dataRequest)
        /\ catalog \in Catalogs) =>
        /\ Len(result.data) = nb_rows(dataRequest)
        /\ \A row \in staticRows(dataRequest) :
              /\ HasKey(result.data, staticRowName(row, catalog))
              /\ Get(result.data, staticRowName(row, catalog))
                     = <<row>> \o RowTotals(dataRequest, res.columnIds, res.totals, row)

\* C25: a decode (normal or static) of a request in which a metric column
\* references a filter id that metricContainer.metricFilters does not
\* declare ends in an error and returns no table.
C25_UndeclaredFilterIsAnError ==
    (pc \in {"done", "error"} /\ ~AllDeclared(dataRequest)) => result.kind # "Workspace"

\* =================================================== claims: traversal
CyclesAt(lvl) == SelectSeq(cycles, LAMBDA c : c.level = lvl)

\* the parent items fetched at a level, in order
ParentsAt(lvl) == [i \in 1..Len(CyclesAt(lvl)) |-> CyclesAt(lvl)[i].parent]

\* the item ids decoded at a level, fetch after fetch
DecodedAt(lvl) == ConcatAll([i \in 1..Len(CyclesAt(lvl)) |-> CyclesAt(lvl)[i].decoded])

\* C2: when the traversal returns, every level L >= 1 has run one fetch
\* cycle for each item id decoded at level L-1, in that order.
C2_OneCyclePerDecodedItem ==
    (phase = "done") =>
        \A lvl \in 1..(Len(dimensions) - 1) : ParentsAt(lvl) = DecodedAt(lvl - 1)

\* C3: a traversal over two dimensions whose posts all succeed raises
\* nothing, whichever branches decode to an empty table, and the table it
\* returns holds exactly the rows decoded for the branches, branch after
\* branch.
C3_EmptyBranchContributesNothing ==
    (Len(dimensions) = 2 /\ missing = {}) =>
        /\ raised \in {"none", "TransportError"}
        /\ (phase = "error" => raised = "TransportError")
        /\ (phase = "done" => Column(table, "itemId") = DecodedAt(1))

\* C4: the builder's document after an item's add / fetch / remove cycle
\* equals the document before it, at every level >= 1.
C4_BuilderRestoredAfterItem ==
    \A i \in 1..Len(cycles) :
        (cycles[i].level >= 1 /\ ~cycles[i].failed) => cycles[i].after = cycles[i].before

\* C5: in a traversal over three dimensions that returns, every item
\* decoded at level 1 is requested at level 2 with, on every metric, the
\* filter "<dimension 1>:::<item>" and the filter id recorded for the item
\* at level 1 ("<dimension 0>:::<its parent>").
C5_Level2CarriesAncestorFilters ==
    (phase = "done" /\ Len(dimensions) >= 3) =>
        \A i \in 1..Len(CyclesAt(1)) :
            \A item \in Range(CyclesAt(1)[i].decoded) :
                \E j \in 1..Len(CyclesAt(2)) :
                    LET c == CyclesAt(2)[j]
                    IN /\ c.parent = item
                       /\ \A m \in Range(c.sent.metrics) :
                             /\ (dimensions[2] \o ":::" \o item) \in Range(m.filters)
                             /\ CyclesAt(1)[i].filterId \in Range(m.filters)

\* once a post has failed: the operation has ended with that error and has
\* handed no table to its caller
FailureEnded ==
    /\ (result.kind = "TransportError" =>
            /\ pc = "error"
            /\ result.data = <<>>
            /\ Len(calls) = Len(answered) + 1)
    /\ (raised = "TransportError" =>
            /\ phase = "error"
            /\ table = EmptyFrame
            /\ cycles[Len(cycles)].failed
            /\ \A i \in 1..(Len(cycles) - 1) : ~cycles[i].failed)

\* once a post has failed: no step posts again, fetches again or changes
\* the outcome
FailureFinal ==
    /\ (result.kind = "TransportError" =>
            calls' = calls /\ answered' = answered /\ result' = result)
    /\ (raised = "TransportError" =>
            cycles' = cycles /\ raised' = raised /\ table' = table)

\* C12: when a post fails during getReport (first or later page) or during
\* a fetch of the traversal, the operation ends with that error, nothing is
\* posted afterwards (no retry, no next page, no next sibling) and no table
\* is returned.
C12_FailurePropagates == []FailureEnded /\ [][FailureFinal]_vars

C12_Witness ==
    /\ raised = "TransportError" /\ phase = "error"
    /\ level = 1 /\ pos = 2 /\ Len(items) = 2
    /\ Len(cycles) = 3
    /\ cycles[2].decoded # <<>>
    /\ ~IsEmpty(df_final)
    /\ table = EmptyFrame

\* C13: a call with dimensions, dimensionLimit, metrics, dataViewId or
\* globalFilters missing (None) ends with the validation error (ValueError)
\* and has fetched nothing when the error is raised.
C13_MissingArgumentRejected ==
    (missing # {}) =>
        /\ phase \in {"start", "error"}
        /\ cycles = <<>>
        /\ (phase = "error" => raised = "ValueError")

\* the fetch of a level that decoded the r-th item of the level
OwnerCycle(lvl, r) ==
    CHOOSE j \in 1..Len(CyclesAt(lvl)) :
        LET before == Len(ConcatAll([i \in 1..(j - 1) |-> CyclesAt(lvl)[i].decoded]))
        IN before < r /\ r <= before + Len(CyclesAt(lvl)[j].decoded)

\* the ancestor, up levels higher, of the r-th item decoded at a level
RECURSIVE AncestorItem(_, _, _)
AncestorItem(lvl, r, up) ==
    IF up = 1 THEN CyclesAt(lvl)[OwnerCycle(lvl, r)].parent
    ELSE AncestorItem(lvl - 1, OwnerCycle(lvl, r), up - 1)

\* the value the service reports for an item
ValueOfItem(itemId) == "v:" \o itemId

\* C16: every row of the returned table carries, in the column of each
\* dimension above its own, the display value of its actual ancestor at
\* that level.
C16_RowsCarryAncestorValues ==
    (phase = "done") =>
        LET L == Len(dimensions) - 1
        IN \A r \in 1..Len(table.rows) :
              /\ r <= Len(DecodedAt(L))
              /\ \A a \in 1..L :
                    /\ dimensions[a] \in Range(table.cols)
                    /\ table.rows[r][dimensions[a]] = ValueOfItem(AncestorItem(L, r, L - a + 1))

C16_Witness ==
    /\ phase = "done"
    /\ Len(dimensions) = 2
    /\ Len(table.rows) = 3
    /\ table.rows[1][dimensions[1]] = "v:page-1"
    /\ table.rows[3][dimensions[1]] = "v:page-2"

\* the filter ids a document holds for each metric
FiltersOf(t) == [m \in 1..Len(t.metrics) |-> t.metrics[m].filters]

\* the lists with their last attachment taken off
WithoutLast(fss) == [m \in 1..Len(fss) |-> SubSeq(fss[m], 1, Len(fss[m]) - 1)]

\* C18: at level L >= 1 the request for parent item I is sent with the
\* filter id "<dimension at level L-1>:::<I>" attached to every metric, and
\* after the fetch exactly those attachments are gone from the builder,
\* before the next sibling's filters are added.
C18_ItemFilterAttachedThenRemoved ==
    \A i \in 1..Len(cycles) :
        LET c == cycles[i]
        IN (c.level >= 1) =>
              /\ c.filterId = dimensions[c.level] \o ":::" \o c.parent
              /\ Len(c.sent.metrics) = Len(metrics)
              /\ \A m \in 1..Len(c.sent.metrics) :
                    /\ c.sent.metrics[m].id = metrics[m]
                    /\ c.sent.metrics[m].filters # <<>>
                    /\ c.sent.metrics[m].filters[Len(c.sent.metrics[m].filters)] = c.filterId
              /\ (c.level = 1 /\ ~c.failed =>
                        FiltersOf(c.after) = WithoutLast(FiltersOf(c.sent)))
              /\ (i < Len(cycles) => cycles[i + 1].before = c.after)

\* the filter ids of the fetches of a level that decoded the item
ParentFilterIds(lvl, item) ==
    {CyclesAt(lvl)[i].filterId : i \in {j \in 1..Len(CyclesAt(lvl)) :
                                            item \in Range(CyclesAt(lvl)[j].decoded)}}

\* C19: once all siblings of a level L >= 1 have been processed, the state
\* kept for the level holds the item ids decoded by every sibling's fetch,
\* maps each of them to the filter id of its parent, and holds the
\* translation of each of them.
C19_LevelStateCoversAllSiblings ==
    (phase \in {"dimension", "done"} /\ level >= 2) =>
        LET L == level - 1
            dimension == dimensions[level]
        IN \A item \in Range(DecodedAt(L)) :
              /\ item \in Range(dict_breakdown_itemId[dimension])
              /\ HasKey(dict_breakdown_relation, item)
              /\ Get(dict_breakdown_relation, item) \in ParentFilterIds(L, item)
              /\ HasKey(translate_itemId_value, dimension)
              /\ HasKey(Get(translate_itemId_value, dimension), item)
              /\ Get(Get(translate_itemId_value, dimension), item) = ValueOfItem(item)

IsPrefix(s, t) == Len(s) <= Len(t) /\ s = SubSeq(t, 1, Len(s))

\* C20: the sibling items of a level are fetched in the order in which the
\* previous level's decoded tables listed them, and the returned table
\* holds the row blocks of the fetches in that same order, unsorted.
C20_ServiceOrderKept ==
    /\ \A lvl \in 1..(Len(dimensions) - 1) : IsPrefix(ParentsAt(lvl), DecodedAt(lvl - 1))
    /\ (phase = "done" => Column(table, "itemId") = DecodedAt(Len(dimensions) - 1))

C20_Witness ==
    /\ phase = "done"
    /\ ParentsAt(1) = <<"page-2", "page-1">>
    /\ Column(table, "itemId") = <<"device-2", "device-1", "device-1">>
    /\ Column(table, "page") = <<"v:page-2", "v:page-2", "v:page-1">>

\* C21: every request document posted during a traversal, at level 0 and at
\* every sub-fetch, carries the repeat-instance flag and the none-value
\* behaviour the caller passed (countRepeatInstances, returnNones).
C21_PostedFlagsAreCallers ==
    \A i \in 1..Len(cycles) :
        /\ cycles[i].posted.countRepeatInstances = countRepeatInstances
        /\ cycles[i].posted.nonesBehavior =
              (IF returnNones THEN "return-nones" ELSE "exclude-nones")

\* C29: a traversal called with exactly one dimension issues the level-0
\* fetch and then returns a table of the level-0 decoded rows; once the
\* fetch has answered, it does not fail.
C29_SingleDimensionReturns ==
    (Len(dimensions) = 1 /\ cycles # <<>> /\ ~cycles[1].failed) =>
        /\ raised = "none"
        /\ phase # "error"
        /\ (phase = "done" => Column(table, "itemId") = cycles[1].decoded)

\* the last dimension's level
LastLevel == Len(dimensions) - 1

\* line 1527 at every entry of the for loop: the running table is empty when
\* the items of a dimension start
TableResetAtLevel ==
    (phase = "dimension" /\ phase' = "items") => df_final' = EmptyFrame

\* the returned table has one row per row decoded at the last level, and
\* no row when the last level fetched for no parent
OnlyLastLevelRows ==
    phase = "done" =>
        /\ Len(table.rows) = Len(DecodedAt(LastLevel))
        /\ (CyclesAt(LastLevel) = <<>> => table = EmptyFrame)

\* C30: the returned table consists only of the row blocks produced while
\* processing the last dimension level: the running table is reset at the
\* start of every level, so a last level that processes no parent item
\* returns an empty table whatever the earlier levels decoded.
C30_OnlyLastLevelReturned == []OnlyLastLevelRows /\ [][TableResetAtLevel]_vars

C30_Witness ==
    /\ phase = "done"
    /\ Len(dimensions) = 3
    /\ DecodedAt(1) # <<>>
    /\ CyclesAt(2) = <<>>
    /\ table = EmptyFrame

\* C6: a returned table with rows has the columns of the dimensions,
\* outermost first, then the metrics in the order given, and no other.
C6_ColumnsDimensionsThenMetrics ==
    (phase = "done" /\ table.rows # <<>>) => table.cols = dimensions \o metrics

====
